---- MODULE Spec2Model ----
(***************************************************************************)
(* bird-player: the audio engine thread of src/main.rs (command channel,   *)
(* PlayerState machine, load_file / setup_audio_reader), the controller    *)
(* facade of src/app/player.rs, and the cpal output sink of src/output.rs  *)
(* (write loop, ring buffer, real-time callback).                          *)
(***************************************************************************)
EXTENDS Integers, Sequences, FiniteSets, TLC

\* ------------------------------------------------------------------ bounds
MaxSent == 3        \* commands the controller puts on the channel in one run
MaxCalls == 4       \* commands the Player facade sends in one run
RingCap == 2        \* ring_len: capacity of the sink's ring buffer, in samples
MaxPacket == 3      \* interleaved samples in one decoded buffer
MaxRequest == 2     \* data.len(): samples the device asks for per callback
TrackLen == 2       \* packets in a playable file
PacketDur == 1000   \* timestamp ticks between two packets of a file
MaxBlock == 2       \* frames in one resampler block (the decoder's capacity)
MaxFed == 24        \* frames fed to one resampler in one run
TickMs == 250       \* milliseconds the clock advances in one step
MaxTracks == 3      \* tracks in the playlist
MaxTicks == 6       \* clock steps in one run

\* ------------------------------------------------------- program constants
UnityVolume == 100  \* f32 1.0, volumes are kept in percent
PosThreshold == 1000
MaxRetries == 5
WarnWindow == 500   \* milliseconds between two overflow warnings

\* ------------------------------------------------------------ input domains
NoPath == "none"
GoodPaths == {"a", "b"}
Paths == GoodPaths \cup {"missing", "corrupt", "notrack"}
Volumes == {50}
SliderVolumes == {25, 50}   \* volumes the slider and the saved settings give
SeekTargets == {PacketDur}
TrackIndexes == {1}
Library == {"a", "missing", "corrupt"}  \* paths of the tracks in the library
Rates == {22, 44, 48}   \* sample rates of content and device, in kHz
ChannelCounts == {1, 2}
TrackKeys == {"song1", "song2", "song3"}   \* library items one can add
NoName == "none"        \* Option<String>::None
NoTrack == "none"       \* Option<LibraryItem>::None
Names == {"Test"}       \* names a playlist is given

\* What the file system and the symphonia probe answer for a path.
FileKind(path) ==
  CASE path \in GoodPaths -> "ok"
    [] path = "missing" -> "missing"
    [] path = "corrupt" -> "unsupported"
    [] OTHER -> "no_track"

\* SignalSpec of the buffers decoded from a file (sample rate in kHz).
Format(path) == IF path = "a" THEN 44 ELSE 48

\* codec_params.n_frames: the container of "b" does not expose it.
HasFrames(path) == path = "a"
TrackDuration(path) == TrackLen * PacketDur

\* --------------------------------------------------------------- variables
VARIABLES
  pc,             \* engine loop position: "recv" | "match"
  alive,          \* FALSE once the audio thread has panicked
  state,          \* PlayerState
  volume,         \* the engine's local volume
  chan,           \* audio_rx: commands in flight
  nSent,          \* number of commands sent so far
  lastApplied,    \* id of the last command taken from the channel
  cmd,            \* the command taken in the current iteration (or NoCmd)
  prev,           \* state.t when the current iteration began
  reader,         \* audio_engine_state.reader
  track_info,     \* audio_engine_state.track_info
  decoder,        \* the decoder
  audio_output,   \* audio_engine_state.audio_output
  current_track_path,
  duration,       \* audio_engine_state.duration
  last_ts,
  is_processing_ui_change,
  trace,          \* operations and status events of the current iteration
  loadResult,     \* outcome of the most recent load_file call
  seekFloor,      \* T of the Seek that established the session, else 0
  finished,       \* Finished events since the session was (re)loaded
  decoded,        \* buffers decoded since the sink was last discarded
  opens,          \* sinks opened since the sink was last discarded
  cbScale,        \* volume used by the callback since the last SetVolume
  lastPos,        \* value of the latest CurrentPosition event, -1 before any
  selectIndex,    \* index of the latest Select taken from the channel, else -1
  rs,             \* the sink's Resampler, with the frames fed and produced
  now,            \* the monotonic clock (Instant::now), in milliseconds
  last_buffer_warning,
  olog,           \* the overflow log: time of its latest entry, parity of count
  track_state,    \* Player.track_state
  selected_track, \* Player.selected_track
  player_volume,  \* Player.volume
  loadSent,       \* TRUE once the Player has put a LoadFile on the channel
  playback_mode,  \* Player.playback_mode
  playing_idx,    \* the row of the playlist that was started last, -1 if none
  playlist,       \* the Playlist: tracks and selected_indices (0-based)
  plOp,           \* the latest Playlist operation, its argument, the playlist before
  toggle,         \* ids of the commands of the latest pause(); pause() pair
  ring,           \* samples queued in the sink's ring buffer, oldest first
  w,              \* the position of the engine thread inside write()
  buffer_full,    \* the shared "buffer full" flag
  cbOut           \* what the last callback invocation handed to the device

vars == <<pc, alive, state, volume, chan, nSent, lastApplied, cmd, reader,
          track_info, decoder, audio_output, current_track_path, duration,
          last_ts, is_processing_ui_change, trace, loadResult, seekFloor,
          finished, decoded, opens, cbScale, track_state, selected_track,
          prev, toggle, ring, w, buffer_full, cbOut, lastPos, selectIndex, rs, now,
          last_buffer_warning, olog, playlist, plOp, player_volume,
          loadSent, playback_mode, playing_idx>>

engineVars == <<pc, alive, state, volume, lastApplied, cmd, prev, reader,
                track_info, decoder, audio_output, current_track_path,
                duration, last_ts, trace, loadResult, seekFloor, finished,
                decoded, opens, lastPos, selectIndex>>

playlistVars == <<playlist, plOp>>

modeVars == <<playback_mode, playing_idx>>

playerVars == <<track_state, selected_track, player_volume, loadSent,
                modeVars, playlistVars>>

sinkVars == <<ring, w, buffer_full, cbOut, rs, now, last_buffer_warning,
              olog>>

\* ------------------------------------------------------------------ values
St(t) == [t |-> t, path |-> NoPath, ts |-> 0]
StLoadFile(p) == [t |-> "LoadFile", path |-> p, ts |-> 0]
StSeekTo(n) == [t |-> "SeekTo", path |-> NoPath, ts |-> n]

NoCmd == [c |-> "none", path |-> NoPath, n |-> 0, id |-> 0]
Cmd(c, p, n) == [c |-> c, path |-> p, n |-> n, id |-> 0]

Commands ==
  {Cmd("Stop", NoPath, 0), Cmd("Play", NoPath, 0), Cmd("Pause", NoPath, 0)}
  \cup {Cmd("Seek", NoPath, t) : t \in SeekTargets}
  \cup {Cmd("LoadFile", p, 0) : p \in Paths}
  \cup {Cmd("Select", NoPath, i) : i \in TrackIndexes}
  \cup {Cmd("SetVolume", NoPath, v) : v \in Volumes}

NoReader == [some |-> FALSE, path |-> NoPath, pos |-> 0]
NoTrackInfo == [some |-> FALSE, track_id |-> 0, seek_ts |-> 0]
NoDecoder == [some |-> FALSE, path |-> NoPath, finalized |-> FALSE]
NoOutput == [some |-> FALSE, spec |-> 0, volume |-> 0]

Op(e, n) == [k |-> "op", e |-> e, n |-> n]
Emit(e, n) == [k |-> "emit", e |-> e, n |-> n]

Inc(n) == IF n < 2 THEN n + 1 ELSE 2

TrackIds == {0, 1}          \* track ids the packets of a multiplexed file carry
SeekResults == {"ok", "reset", "err"}
DecodeResults == {"ok", "empty", "decode_error", "fatal"}
NoLoad == [result |-> "none", seek |-> "none"]
NoToggle == [first |-> 0, second |-> 0, from |-> "none"]
NotWriting == [pc |-> "idle", samples |-> <<>>, written |-> 0, retry |-> 0,
               dropped |-> 0]
NoResampler == [some |-> FALSE]
NoLog == [at |-> -1, flip |-> FALSE]
NoOp == [op |-> "none"]

\* ---------------------------------------------------------------- loading
\* first_supported_track: the id of the first track with a non-null codec.
first_supported_track(path) == 0

\* reader.tracks(): the ids of the tracks of a file, by index from 0.
Tracks(path) == [i \in 0..1 |-> i]

\* audio_engine_state.track_num: None from construction on, never assigned.
track_num == -1

\* track_num.and_then(|t| tracks.get(t)).or_else(first_supported_track)
TrackFor(path, tn) ==
  IF tn \in DOMAIN Tracks(path) THEN Tracks(path)[tn]
  ELSE first_supported_track(path)

NewReader(path, pos) == [some |-> TRUE, path |-> path, pos |-> pos]

\* Packets an accurate seek to ts may leave the reader at: at or before ts.
SeekLanding(ts) == {p \in 0..(TrackLen - 1) : p * PacketDur <= ts}

\* setup_audio_reader on the freshly probed reader of `path`: the possible
\* (reader, track_info) pairs, one per answer of reader.seek.
setup_audio_reader(path, ti, ts) ==
  IF FileKind(path) = "no_track"
  THEN {[reader |-> NewReader(path, 0), track_info |-> ti, seek |-> "none"]}
  ELSE UNION {
         {[reader |-> NewReader(path, p),
           track_info |-> [some |-> TRUE,
                           track_id |-> IF r = "reset"
                                        THEN first_supported_track(path)
                                        ELSE TrackFor(path, track_num),
                           seek_ts |-> IF r = "ok" THEN ts ELSE 0],
           seek |-> r] : p \in IF r = "err" THEN {0} ELSE SeekLanding(ts)}
         : r \in SeekResults}

LoadOutcome(rd, ti, dec, dur, panicked, result, seek) ==
  [reader |-> rd, track_info |-> ti, decoder |-> dec, duration |-> dur,
   panicked |-> panicked, load |-> [result |-> result, seek |-> seek]]

\* load_file(path, .., seek_timestamp): the set of possible outcomes.
load_file(path, ts, rd, ti, dec, dur) ==
  CASE FileKind(path) = "missing" ->
         \* File::open(path).expect("couldn't open file")
         {LoadOutcome(rd, ti, dec, dur, TRUE, "open_failed", "none")}
    [] FileKind(path) = "unsupported" ->
         \* probe Err: warn and return, nothing is touched
         {LoadOutcome(rd, ti, dec, dur, FALSE, "probe_failed", "none")}
    [] FileKind(path) = "no_track" ->
         LET s == CHOOSE x \in setup_audio_reader(path, ti, ts) : TRUE IN
         IF ~ti.some
         THEN \* track_info.unwrap() on None
              {LoadOutcome(s.reader, ti, dec, dur, TRUE, "no_track", "none")}
         ELSE \* stale track_info: its id is not among the tracks (return), or
              \* it names a null-codec track (make(..).expect panics)
              {LoadOutcome(s.reader, ti, dec, dur, FALSE, "no_track", "none"),
               LoadOutcome(s.reader, ti, dec, dur, TRUE, "no_track", "none")}
    [] OTHER ->
         {LoadOutcome(s.reader, s.track_info,
                      [some |-> TRUE, path |-> path, finalized |-> FALSE],
                      IF HasFrames(path) THEN TrackDuration(path) ELSE dur,
                      FALSE, "ok", s.seek)
            : s \in setup_audio_reader(path, ti, ts)}

\* ---------------------------------------------------------------- Playlist
\* Playlist::new()
NewPlaylist ==
  [name |-> NoName, tracks |-> <<>>, selected |-> NoTrack,
   selected_indices |-> {}]

\* Playlist::get_name
get_name(p) == p.name

\* A push that puts the element in front.
VecPushFront(v, x) == <<x>> \o v

\* Vec::push(x)
VecPush(v, x) == Append(v, x)

\* Vec::insert(idx, x): x lands at 0-based idx, the rest shifts right.
VecInsert(v, idx, x) ==
  [j \in 1..(Len(v) + 1) |->
     IF j <= idx THEN v[j] ELSE IF j = idx + 1 THEN x ELSE v[j - 1]]

\* Vec::remove(idx): the element at 0-based idx goes, the rest shifts left.
VecRemove(v, idx) ==
  [j \in 1..(Len(v) - 1) |-> IF j <= idx THEN v[j] ELSE v[j + 1]]

\* An index that is left where it was.
ShiftNone(i) == i

\* The new index of a selected index above the removed one.
ShiftDown(i) == i - 1

\* Playlist::remove(idx) on playlist p
PlaylistRemove(p, idx) ==
  LET sel == p.selected_indices \ {idx}
      to_remove == {i \in sel : i > idx}
      to_add == {ShiftDown(i) : i \in to_remove}
  IN [p EXCEPT !.tracks = VecRemove(p.tracks, idx),
                !.selected_indices = (sel \ to_remove) \cup to_add]

\* A selected index that is left where it was.
StayPut(i) == i

\* The new index of a selected index the moved track jumps over backwards.
ShiftUp(i) == i + 1

\* The selected indices reorder rebuilds: each one follows its track.
NewSelected(sel, current_pos, destination_pos) ==
  UNION {
    IF idx = current_pos THEN {destination_pos}
    ELSE IF (idx < current_pos /\ idx < destination_pos)
            \/ (idx > current_pos /\ idx > destination_pos) THEN {idx}
    ELSE IF idx < current_pos /\ idx >= destination_pos THEN {ShiftUp(idx)}
    ELSE IF idx > current_pos /\ idx <= destination_pos THEN {ShiftDown(idx)}
    ELSE {} : idx \in sel}

\* Playlist::reorder(current_pos, destination_pos) on playlist p
PlaylistReorder(p, current_pos, destination_pos) ==
  LET track == p.tracks[current_pos + 1] IN
  [p EXCEPT !.tracks = VecInsert(VecRemove(p.tracks, current_pos),
                                 destination_pos, track),
            !.selected_indices =
               NewSelected(p.selected_indices, current_pos, destination_pos)]

\* ------------------------------------------------------------------- Init
InitEngine ==
  /\ pc = "recv"
  /\ alive = TRUE
  /\ state = St("Unstarted")
  /\ volume = UnityVolume
  /\ chan = <<>>
  /\ nSent = 0
  /\ lastApplied = 0
  /\ cmd = NoCmd
  /\ reader = NoReader
  /\ track_info = NoTrackInfo
  /\ decoder = NoDecoder
  /\ audio_output = NoOutput
  /\ current_track_path = NoPath
  /\ duration = 0
  /\ last_ts = 0
  /\ is_processing_ui_change = FALSE
  /\ trace = <<>>
  /\ loadResult = NoLoad
  /\ seekFloor = 0
  /\ finished = 0
  /\ decoded = 0
  /\ opens = 0
  /\ cbScale = 0
  /\ track_state = "Unstarted"
  /\ selected_track = NoPath
  /\ player_volume = UnityVolume
  /\ loadSent = FALSE
  /\ playback_mode = "Normal"
  /\ playing_idx = -1
  /\ prev = "Unstarted"
  /\ toggle = NoToggle
  /\ ring = <<>>
  /\ w = NotWriting
  /\ buffer_full = FALSE
  /\ cbOut = <<>>
  /\ lastPos = -1
  /\ selectIndex = -1
  /\ now = 0
  /\ last_buffer_warning = 0
  /\ olog = NoLog
  /\ playlist = NewPlaylist
  /\ plOp = NoOp

Init == InitEngine /\ rs = NoResampler

\* ------------------------------------------------------------- controller
\* The controller puts a command on the inbound channel (Sender::send).
Send(c) ==
  /\ alive
  /\ nSent < MaxSent
  /\ chan' = Append(chan, [c EXCEPT !.id = nSent + 1])
  /\ nSent' = nSent + 1
  /\ UNCHANGED <<engineVars, is_processing_ui_change, cbScale, playerVars,
                 toggle, sinkVars>>

SendAny == \E c \in Commands : Send(c)

\* --------------------------------------------------------- process_audio_cmd
\* The PlayerState a command leaves behind.
ApplyCmd(c, st) ==
  CASE c.c = "Seek" -> StSeekTo(c.n)
    [] c.c = "Stop" -> St("Stopped")
    [] c.c = "Pause" -> St("Paused")
    [] c.c = "Play" -> St("Playing")
    [] c.c = "LoadFile" -> StLoadFile(c.path)
    [] OTHER -> st

\* A receive that hands out the newest command instead of the oldest.
ReceivedNewest(q) == IF q = <<>> THEN NoCmd ELSE q[Len(q)]

\* What try_recv hands out, and what stays in the channel.
Received(q) == IF q = <<>> THEN NoCmd ELSE Head(q)
Remaining(q) == IF q = <<>> THEN q ELSE Tail(q)

process_audio_cmd ==
  /\ pc = "recv"
  /\ alive
  /\ LET c == Received(chan) IN
       /\ cmd' = c
       /\ chan' = Remaining(chan)
       /\ lastApplied' = IF c = NoCmd THEN lastApplied ELSE c.id
       /\ state' = ApplyCmd(c, state)
       /\ volume' = IF c.c = "SetVolume" THEN c.n ELSE volume
       /\ is_processing_ui_change' =
            IF c.c = "SetVolume" THEN FALSE ELSE is_processing_ui_change
       /\ cbScale' = IF c.c = "SetVolume" THEN 0 ELSE cbScale
       /\ selectIndex' = IF c.c = "Select" THEN c.n ELSE selectIndex
       /\ toggle' = IF c # NoCmd /\ c.id = toggle.first
                     THEN [toggle EXCEPT !.from = state.t] ELSE toggle
  /\ prev' = state.t
  /\ pc' = "match"
  /\ trace' = <<>>
  /\ UNCHANGED <<lastPos, alive, nSent, reader, track_info, decoder, audio_output,
                 current_track_path, duration, last_ts, loadResult, seekFloor,
                 finished, decoded, opens, playerVars, sinkVars>>

\* ------------------------------------------------------------ engine steps
At(t) == pc = "match" /\ alive /\ state.t = t

FlushOps(out) == IF out.some THEN <<Op("flush", 0)>> ELSE <<>>
Finalize(dec) == IF dec.some THEN [dec EXCEPT !.finalized = TRUE] ELSE dec
FinalizeOps(dec) == IF dec.some THEN <<Op("finalize", 0)>> ELSE <<>>

\* The tail shared by the three steps that call load_file: what the call
\* leaves in the session, and the thread dying when it panics.
Loaded(o) ==
  /\ reader' = o.reader
  /\ track_info' = o.track_info
  /\ decoder' = o.decoder
  /\ duration' = o.duration
  /\ loadResult' = o.load
  /\ alive' = ~o.panicked
  /\ pc' = IF o.panicked THEN pc ELSE "recv"
  /\ finished' = IF o.load.result = "ok" THEN 0 ELSE finished

\* A Stopped step that leaves the state as it found it.
StoppedStays == St("Stopped")

\* The state the Stopped step settles into after the reload.
StoppedSettles == St("Unstarted")

\* PlayerState::Stopped
StepStopped ==
  /\ At("Stopped")
  /\ IF current_track_path = NoPath
     THEN /\ trace' = FlushOps(audio_output)
          /\ pc' = "recv"
          /\ UNCHANGED <<alive, state, reader, track_info, decoder,
                         audio_output, duration, loadResult, seekFloor,
                         finished, decoded, opens, lastPos>>
     ELSE \E o \in load_file(current_track_path, 0, reader, track_info,
                             Finalize(decoder), duration) :
            /\ Loaded(o)
            /\ lastPos' = IF o.panicked THEN lastPos ELSE 0
            /\ audio_output' = NoOutput
            /\ state' = IF o.panicked THEN state ELSE StoppedSettles
            /\ trace' = FlushOps(audio_output) \o FinalizeOps(decoder)
                        \o FlushOps(audio_output)
                        \o <<Op("drop_output", 0), Op("load_file", 0)>>
                        \o IF o.panicked THEN <<Op("panic", 0)>>
                           ELSE <<Emit("CurrentPosition", 0)>>
            /\ seekFloor' = 0
            /\ decoded' = 0
            /\ opens' = 0
  /\ UNCHANGED <<selectIndex, volume, chan, nSent, lastApplied, cmd, current_track_path,
                 last_ts, is_processing_ui_change, cbScale, playerVars, prev, toggle, sinkVars>>

\* PlayerState::SeekTo(seek_timestamp)
StepSeekTo ==
  /\ At("SeekTo")
  /\ IF current_track_path = NoPath
     THEN /\ trace' = <<>>
          /\ pc' = "recv"
          /\ UNCHANGED <<alive, state, reader, track_info, decoder,
                         audio_output, duration, loadResult, seekFloor,
                         finished, decoded, opens>>
     ELSE \E o \in load_file(current_track_path, state.ts, reader, track_info,
                             decoder, duration) :
            /\ Loaded(o)
            /\ audio_output' = NoOutput
            /\ state' = IF o.panicked THEN state ELSE St("Playing")
            /\ trace' = FlushOps(audio_output)
                        \o <<Op("drop_output", 0), Op("load_file", state.ts)>>
                        \o IF o.panicked THEN <<Op("panic", 0)>>
                           ELSE <<Emit("PlaybackStateChanged", 1)>>
            /\ seekFloor' = IF o.load.result = "ok" THEN state.ts ELSE 0
            /\ decoded' = 0
            /\ opens' = 0
  /\ UNCHANGED <<selectIndex, lastPos, volume, chan, nSent, lastApplied, cmd, current_track_path,
                 last_ts, is_processing_ui_change, cbScale, playerVars, prev, toggle, sinkVars>>

\* PlayerState::LoadFile(path)
StepLoadFile ==
  /\ At("LoadFile")
  /\ \E o \in load_file(state.path, 0, reader, track_info, Finalize(decoder),
                        duration) :
       /\ Loaded(o)
       /\ audio_output' = NoOutput
       /\ current_track_path' = state.path
       /\ state' = IF o.panicked THEN state ELSE St("Playing")
       /\ trace' = FlushOps(audio_output) \o FinalizeOps(decoder)
                   \o <<Op("drop_output", 0), Op("load_file", 0)>>
                   \o IF o.panicked THEN <<Op("panic", 0)>>
                      ELSE <<Emit("TotalDuration", o.duration)>>
       /\ seekFloor' = 0
       /\ decoded' = 0
       /\ opens' = 0
  /\ UNCHANGED <<selectIndex, lastPos, volume, chan, nSent, lastApplied, cmd, last_ts,
                 is_processing_ui_change, cbScale, playerVars, prev, toggle, sinkVars>>

\* PlayerState::Paused and PlayerState::Unstarted: sleep 50 ms / 100 ms.
StepIdle ==
  /\ pc = "match" /\ alive /\ state.t \in {"Paused", "Unstarted"}
  /\ trace' = <<Op("sleep", IF state.t = "Paused" THEN 50 ELSE 100)>>
  /\ pc' = "recv"
  /\ UNCHANGED <<selectIndex, lastPos, alive, state, volume, chan, nSent, lastApplied, cmd, reader,
                 track_info, decoder, audio_output, current_track_path,
                 duration, last_ts, is_processing_ui_change, loadResult,
                 seekFloor, finished, decoded, opens, cbScale, playerVars, prev, toggle, sinkVars>>

\* ----------------------------------------------------- PlayerState::Playing
HasSession == reader.some /\ track_info.some

\* A write that ignores the seek position.
RenderAlways(ts, seek_ts) == TRUE

\* The presentation-timestamp test that decides whether a packet is written.
ShouldRender(ts, seek_ts) == ts >= seek_ts

\* An open that does not look at the sink that is already there.
OpenAlways(out) == TRUE

\* The sink is opened only while there is none.
NeedOpen(out) == ~out.some

\* The position-update test (the timer is an input: `elapsed`).
ShouldReport(elapsed, ts, last) ==
  elapsed /\ (ts > last + PosThreshold \/ ts < last)

\* reader.as_mut().unwrap() / track_info.unwrap() without a session.
PlayingNoSession ==
  /\ At("Playing")
  /\ ~HasSession
  /\ alive' = FALSE
  /\ trace' = <<Op("panic", 0)>>
  /\ UNCHANGED <<selectIndex, lastPos, pc, state, volume, chan, nSent, lastApplied, cmd, reader,
                 track_info, decoder, audio_output, current_track_path,
                 duration, last_ts, is_processing_ui_change, loadResult,
                 seekFloor, finished, decoded, opens, cbScale, playerVars, prev, toggle, sinkVars>>

\* next_packet fails: Stopped and AudioFinished whatever the error is; the
\* thread survives only the "end of stream" error (ignore_end_of_stream_error).
PlayingEnd ==
  /\ At("Playing")
  /\ HasSession
  /\ \E eof \in BOOLEAN :
       /\ (reader.pos = TrackLen) => eof
       /\ (reader.pos < TrackLen) => ~eof
       /\ alive' = eof
       /\ pc' = IF eof THEN "recv" ELSE pc
       /\ trace' = <<Op("next_packet_err", 0), Emit("Finished", 0)>>
                   \o IF eof THEN <<>> ELSE <<Op("panic", 0)>>
  /\ state' = St("Stopped")
  /\ finished' = Inc(finished)
  /\ UNCHANGED <<selectIndex, lastPos, volume, chan, nSent, lastApplied, cmd, reader, track_info,
                 decoder, audio_output, current_track_path, duration, last_ts,
                 is_processing_ui_change, loadResult, seekFloor, decoded,
                 opens, cbScale, playerVars, prev, toggle, sinkVars>>

\* A skip that comes after the position report.
SkipAfterReport(ts) == <<Emit("CurrentPosition", ts), Op("skip", ts)>>

\* The track id test comes before the position report: a skipped packet
\* leaves nothing but the warning.
SkipOps(ts) == <<Op("skip", ts)>>

\* A packet of another track: skipped before anything else happens.
PlayingSkip ==
  /\ At("Playing")
  /\ HasSession
  /\ reader.pos < TrackLen
  /\ \E ptid \in TrackIds : ptid # track_info.track_id
  /\ reader' = [reader EXCEPT !.pos = @ + 1]
  /\ trace' = SkipOps(reader.pos * PacketDur)
  /\ pc' = "recv"
  /\ UNCHANGED <<selectIndex, lastPos, alive, state, volume, chan, nSent, lastApplied, cmd,
                 track_info, decoder, audio_output, current_track_path,
                 duration, last_ts, is_processing_ui_change, loadResult,
                 seekFloor, finished, decoded, opens, cbScale, playerVars, prev, toggle, sinkVars>>

\* A packet of the selected track: position report, decode, open, write.
PlayingPacket ==
  /\ At("Playing")
  /\ HasSession
  /\ reader.pos < TrackLen
  /\ \E elapsed \in BOOLEAN, dres \in DecodeResults, opened \in BOOLEAN :
       LET ts == reader.pos * PacketDur
           report == ShouldReport(elapsed, ts, last_ts)
           reportOps == IF report THEN <<Emit("CurrentPosition", ts)>>
                        ELSE <<>>
           good == decoder.some /\ dres \in {"ok", "empty"}
           open == good /\ NeedOpen(audio_output)
           out1 == IF open
                   THEN [some |-> TRUE, spec |-> Format(decoder.path),
                         volume |-> UnityVolume]
                   ELSE audio_output
           write == good /\ dres = "ok"
                    /\ ShouldRender(ts, track_info.seek_ts)
           panics == \/ ~decoder.some
                     \/ dres = "fatal"
                     \/ (open /\ ~opened)
       IN
       /\ reader' = [reader EXCEPT !.pos = @ + 1]
       /\ last_ts' = IF report THEN ts ELSE last_ts
       /\ lastPos' = IF report THEN ts ELSE lastPos
       /\ alive' = ~panics
       /\ pc' = IF panics THEN pc ELSE "recv"
       /\ audio_output' = IF panics \/ ~good THEN audio_output
                          ELSE IF write THEN [out1 EXCEPT !.volume = volume]
                          ELSE out1
       /\ decoded' = IF good THEN Inc(decoded) ELSE decoded
       /\ opens' = IF open /\ opened THEN Inc(opens) ELSE opens
       /\ trace' = reportOps
                   \o (IF good THEN <<Op("decode", ts)>>
                       ELSE IF decoder.some /\ dres = "decode_error"
                       THEN <<Op("decode_error", ts)>>
                       ELSE IF decoder.some
                       THEN <<Op("decode_failed", ts)>> ELSE <<>>)
                   \o (IF open /\ opened
                       THEN <<Op("open", Format(decoder.path))>>
                       ELSE IF open THEN <<Op("open_failed", 0)>> ELSE <<>>)
                   \o (IF write /\ ~panics THEN <<Op("write", ts)>> ELSE <<>>)
                   \o (IF panics THEN <<Op("panic", 0)>> ELSE <<>>)
  /\ UNCHANGED <<selectIndex, state, volume, chan, nSent, lastApplied, cmd, track_info,
                 decoder, current_track_path, duration,
                 is_processing_ui_change, loadResult, seekFloor, finished,
                 cbScale, playerVars, prev, toggle, sinkVars>>

\* ------------------------------------------------------ real-time callback
Min(a, b) == IF a < b THEN a ELSE b
SubSeqFrom(q, k) == SubSeq(q, k + 1, Len(q))
Silence(n) == [i \in 1..n |-> 0]

\* A sample that is handed on as it is.
Unscaled(sample, v) == sample

\* AudioOutputSample::mul
Scale(sample, v) == (sample * v) \div UnityVolume

\* One invocation of the output stream's data callback asking for n samples:
\* it loads the shared volume once, reads what the ring buffer holds, sets the
\* fullness flag, scales what it read and mutes the rest.
Callback ==
  /\ alive
  /\ audio_output.some
  /\ \E n \in 1..MaxRequest :
       LET current_volume == audio_output.volume
           written == Min(n, Len(ring))
       IN
       /\ cbScale' = current_volume
       /\ ring' = SubSeqFrom(ring, written)
       /\ buffer_full' = ~(written < n)
       /\ cbOut' = [i \in 1..written |-> Scale(ring[i], current_volume)]
                   \o Silence(n - written)
  /\ UNCHANGED <<now, last_buffer_warning, olog, rs, engineVars, chan, nSent, is_processing_ui_change, playerVars,
                 toggle, w>>

\* ------------------------------------------------- CpalAudioOutputImpl::write
Free(q) == RingCap - Len(q)
Interleaved(n) == [i \in 1..n |-> 2 * i]

\* write(decoded, volume) up to the retry loop: nothing at all for a buffer
\* without frames; otherwise the volume is stored for the callback and the
\* samples are interleaved (or the resampler has no full block yet: return).
WriteBegin ==
  /\ alive
  /\ audio_output.some
  /\ w.pc = "idle"
  /\ \E n \in 0..MaxPacket, block \in BOOLEAN :
       /\ audio_output' = IF n = 0 THEN audio_output
                          ELSE [audio_output EXCEPT !.volume = volume]
       /\ w' = IF n = 0 \/ ~block
               THEN [NotWriting EXCEPT !.pc = "returned"]
               ELSE [pc |-> "loop", samples |-> Interleaved(n), written |-> 0,
                     retry |-> 0, dropped |-> 0]
  /\ UNCHANGED <<selectIndex, now, last_buffer_warning, olog, rs, lastPos, pc, alive, state, volume, chan, nSent, lastApplied, cmd, prev,
                 reader, track_info, decoder, current_track_path, duration,
                 last_ts, is_processing_ui_change, trace, loadResult,
                 seekFloor, finished, decoded, opens, cbScale, playerVars,
                 toggle, ring, buffer_full, cbOut>>

\* The loop condition of write.
KeepTrying(wr) == wr.written < Len(wr.samples) /\ wr.retry < MaxRetries

\* A retry that starts over at the first sample of the buffer.
ResumeAtStart(wr) == 0

\* &samples[samples_written..]: a retry resumes at the first unwritten sample.
ResumeAt(wr) == wr.written

\* What one completed write_blocking call leaves behind: it copies as many of
\* the unwritten samples as there are free slots and reports the count.
Copied(wr, q) ==
  LET cnt == Min(Len(wr.samples) - wr.written, Free(q))
      done == wr.written + cnt
  IN [w |-> [wr EXCEPT !.pc = "loop", !.written = done,
                       !.retry = IF done < Len(wr.samples) THEN @ + 1 ELSE @],
      ring |-> q \o SubSeq(wr.samples, ResumeAt(wr) + 1, ResumeAt(wr) + cnt)]

\* True when write_blocking finds the ring buffer full and waits on the
\* slots_free condition for the consumer.
MustWait(q) == Free(q) = 0

\* One write_blocking call from the loop.
WriteAttempt ==
  /\ alive
  /\ w.pc = "loop"
  /\ KeepTrying(w)
  /\ IF MustWait(ring)
     THEN /\ w' = [w EXCEPT !.pc = "parked"]
          /\ ring' = ring
     ELSE /\ w' = Copied(w, ring).w
          /\ ring' = Copied(w, ring).ring
  /\ UNCHANGED <<now, last_buffer_warning, olog, rs, engineVars, chan, nSent, is_processing_ui_change, cbScale,
                 playerVars, toggle, buffer_full, cbOut>>

\* The waiting write_blocking call returns: the consumer freed slots and
\* notified, or the condition variable woke up spuriously (no slot free).
WriteWake ==
  /\ alive
  /\ w.pc = "parked"
  /\ w' = Copied(w, ring).w
  /\ ring' = Copied(w, ring).ring
  /\ UNCHANGED <<now, last_buffer_warning, olog, rs, engineVars, chan, nSent, is_processing_ui_change, cbScale,
                 playerVars, toggle, buffer_full, cbOut>>

\* Time passes.
Tick ==
  /\ now + TickMs <= MaxTicks * TickMs
  /\ now' = now + TickMs
  /\ UNCHANGED <<engineVars, chan, nSent, is_processing_ui_change, cbScale,
                 playerVars, toggle, ring, w, buffer_full, cbOut, rs,
                 last_buffer_warning, olog>>

\* The rate limit of the overflow warning.
ShouldWarn(at, last) == at - last > WarnWindow

\* The loop is left: what was not written is dropped, the drop is logged
\* unless the previous warning is too recent, and write returns Ok.
WriteReturn ==
  /\ alive
  /\ w.pc = "loop"
  /\ ~KeepTrying(w)
  /\ w' = [w EXCEPT !.pc = "returned",
                    !.dropped = Len(w.samples) - w.written]
  /\ IF w.written < Len(w.samples) /\ ShouldWarn(now, last_buffer_warning)
     THEN /\ last_buffer_warning' = now
          /\ olog' = [at |-> now, flip |-> ~olog.flip]
     ELSE UNCHANGED <<last_buffer_warning, olog>>
  /\ UNCHANGED <<now, rs, engineVars, chan, nSent, is_processing_ui_change, cbScale,
                 playerVars, toggle, ring, buffer_full, cbOut>>

\* The engine goes on to its next packet.
WriteNext ==
  /\ alive
  /\ w.pc = "returned"
  /\ w' = NotWriting
  /\ UNCHANGED <<now, last_buffer_warning, olog, rs, engineVars, chan, nSent, is_processing_ui_change, cbScale,
                 playerVars, toggle, ring, buffer_full, cbOut>>

\* The sink's part of a step that replaces the session (Seek, LoadFile, the
\* reload of the Stopped step): flush hands the resampler's tail to the ring
\* buffer and pauses the stream, then `audio_output = None` drops the sink
\* and, with it, the ring buffer and whatever it still holds.
flush_and_discard ==
  /\ alive
  /\ audio_output.some
  /\ w.pc = "idle"
  /\ audio_output' = NoOutput
  /\ ring' = <<>>
  /\ opens' = 0
  /\ decoded' = 0
  /\ UNCHANGED <<pc, alive, state, volume, lastApplied, cmd, prev, reader,
                 track_info,
                 decoder, current_track_path, duration, last_ts, trace,
                 loadResult, seekFloor, finished, lastPos, selectIndex, chan,
                 nSent, is_processing_ui_change, cbScale, playerVars, toggle,
                 w, buffer_full, cbOut, rs, now, last_buffer_warning, olog>>

\* -------------------------------------------------------------------- Spec
EngineStep ==
  \/ process_audio_cmd
  \/ PlayingNoSession
  \/ PlayingEnd
  \/ PlayingSkip
  \/ PlayingPacket
  \/ StepStopped
  \/ StepSeekTo
  \/ StepLoadFile
  \/ StepIdle

\* The audio thread and its controller.
Next ==
  \/ SendAny
  \/ EngineStep

Spec == Init /\ [][Next]_vars

\* The same with the output device, whose callback runs on a thread of its own.
DeviceNext ==
  \/ SendAny
  \/ EngineStep
  \/ Callback

DeviceSpec == Init /\ [][DeviceNext]_vars

\* ------------------------------------------------------------------ Player
\* audio_tx.send(..) from a Player method.  `pair` is the bookkeeping of the
\* pause(); pause() pairs: every other method abandons an unfinished pair.
PlayerSend(c, pair) ==
  /\ alive
  /\ nSent < MaxCalls
  /\ chan' = Append(chan, [c EXCEPT !.id = nSent + 1])
  /\ nSent' = nSent + 1
  /\ toggle' = pair
  /\ loadSent' = (loadSent \/ c.c = "LoadFile")
  /\ UNCHANGED <<engineVars, cbScale, sinkVars, modeVars>>

Abandon == IF toggle.second = 0 THEN NoToggle ELSE toggle

\* Player::select_track(Some(track))
select_track ==
  \E p \in Library :
    /\ selected_track' = p
    /\ PlayerSend(Cmd("LoadFile", p, 0), Abandon)
    /\ UNCHANGED <<track_state, player_volume, is_processing_ui_change,
                   playlistVars>>

\* Player::select_track(None): the selection is dropped, nothing is sent.
select_none ==
  /\ alive
  /\ selected_track # NoPath
  /\ selected_track' = NoPath
  /\ playing_idx' = -1
  /\ toggle' = Abandon
  /\ UNCHANGED <<engineVars, chan, nSent, cbScale, sinkVars, track_state,
                 player_volume, loadSent, playback_mode,
                 is_processing_ui_change, playlistVars>>

\* A play that does not look at the selection.
CanPlayAlways(sel) == TRUE

\* if let Some(_selected_track) = &self.selected_track
CanPlay(sel) == sel # NoPath

\* Player::play
play ==
  /\ CanPlay(selected_track)
  /\ track_state' = "Playing"
  /\ PlayerSend(Cmd("Play", NoPath, 0), Abandon)
  /\ UNCHANGED <<selected_track, player_volume, is_processing_ui_change,
                 playlistVars>>

\* A pause that never toggles back.
PauseAlways(ts) == "Pause"

\* What Player::pause sends in the two states where it sends anything.
PauseCommand(ts) == IF ts = "Playing" THEN "Pause" ELSE "Play"

\* Player::pause
pause ==
  /\ track_state \in {"Playing", "Paused"}
  /\ track_state' = IF track_state = "Playing" THEN "Paused" ELSE "Playing"
  /\ PlayerSend(Cmd(PauseCommand(track_state), NoPath, 0),
                IF track_state = "Playing"
                THEN [first |-> nSent + 1, second |-> 0, from |-> "none"]
                ELSE IF toggle.first # 0 /\ toggle.second = 0
                THEN [toggle EXCEPT !.second = nSent + 1]
                ELSE toggle)
  /\ UNCHANGED <<selected_track, player_volume, is_processing_ui_change,
                 playlistVars>>

\* Player::stop
stop ==
  /\ track_state \in {"Playing", "Paused"}
  /\ track_state' = "Stopped"
  /\ PlayerSend(Cmd("Stop", NoPath, 0), Abandon)
  /\ UNCHANGED <<selected_track, player_volume, is_processing_ui_change,
                 playlistVars>>

\* Player::seek_to
seek_to ==
  \E t \in SeekTargets :
    /\ PlayerSend(Cmd("Seek", NoPath, t), Abandon)
    /\ UNCHANGED <<track_state, selected_track, player_volume,
                   is_processing_ui_change, playlistVars>>

\* A guard that lets every volume change through.
AlwaysReady(flag) == TRUE

\* if !is_processing_ui_change.load(Ordering::Acquire)
ReadyForVolume(flag) == ~flag

\* Player::set_volume: with a change still in flight the call does nothing.
set_volume ==
  \E v \in SliderVolumes :
    /\ ReadyForVolume(is_processing_ui_change)
    /\ is_processing_ui_change' = TRUE
    /\ player_volume' = v
    /\ PlayerSend(Cmd("SetVolume", NoPath, v), Abandon)
    /\ UNCHANGED <<track_state, selected_track, playlistVars>>

PlayerCall ==
  \/ select_track
  \/ play
  \/ pause
  \/ stop
  \/ seek_to
  \/ set_volume

PlayerNext ==
  \/ PlayerCall
  \/ EngineStep

PlayerSpec == Init /\ [][PlayerNext]_vars

\* The sink on its own: a session on file "a" is playing, the sink has just
\* been opened, and the engine thread is about to write decoded buffers
\* while the device callback runs whenever it likes.
SinkInit ==
  /\ pc = "match"
  /\ alive = TRUE
  /\ state = St("Playing")
  /\ volume \in {UnityVolume} \cup Volumes
  /\ chan = <<>>
  /\ nSent = 1
  /\ lastApplied = 1
  /\ cmd = NoCmd
  /\ prev = "Playing"
  /\ reader = NewReader("a", 0)
  /\ track_info = [some |-> TRUE, track_id |-> 0, seek_ts |-> 0]
  /\ decoder = [some |-> TRUE, path |-> "a", finalized |-> FALSE]
  /\ audio_output = [some |-> TRUE, spec |-> Format("a"),
                     volume |-> UnityVolume]
  /\ current_track_path = "a"
  /\ duration = TrackDuration("a")
  /\ last_ts = 0
  /\ is_processing_ui_change = FALSE
  /\ trace = <<>>
  /\ loadResult = [result |-> "ok", seek |-> "ok"]
  /\ seekFloor = 0
  /\ finished = 0
  /\ decoded = 1
  /\ opens = 1
  /\ cbScale = 0
  /\ track_state = "Unstarted"
  /\ selected_track = NoPath
  /\ player_volume = UnityVolume
  /\ loadSent = FALSE
  /\ playback_mode = "Normal"
  /\ playing_idx = -1
  /\ toggle = NoToggle
  /\ ring = <<>>
  /\ w = NotWriting
  /\ buffer_full = FALSE
  /\ cbOut = <<>>
  /\ lastPos = -1
  /\ selectIndex = -1
  /\ rs = NoResampler
  /\ now = 0
  /\ last_buffer_warning = now
  /\ olog = NoLog
  /\ playlist = NewPlaylist
  /\ plOp = NoOp

SinkNext ==
  \/ WriteBegin
  \/ WriteAttempt
  \/ WriteWake
  \/ WriteReturn
  \/ WriteNext
  \/ Callback
  \/ Tick
  \/ flush_and_discard

SinkSpec == SinkInit /\ [][SinkNext]_vars

\* ---------------------------------------------------------------- Resampler
Abs(x) == IF x < 0 THEN -x ELSE x
Max(a, b) == IF a > b THEN a ELSE b

\* Resampler::new picks the algorithm from the relative rate difference:
\* ratio_diff < 0.25 selects Linear, anything else HighQuality.
ResamplerType(from, to) ==
  IF 4 * Abs(to - from) < from THEN "Linear" ELSE "HighQuality"

\* The output/input ratio the rubato resampler is constructed with, as
\* <<numerator, denominator>>: FftFixedIn::new(from, to, ..) converts from ->
\* to; SincFixedIn::new takes the output/input ratio as its first argument
\* and is handed from_sample_rate / to_sample_rate.
LibraryRatio(type, from, to) ==
  IF type = "HighQuality" THEN <<to, from>> ELSE <<from, to>>

\* Resampler::new(spec, to_sample_rate, duration)
NewResampler(from, channels, to, dur) ==
  [some |-> TRUE, from |-> from, to |-> to, channels |-> channels,
   duration |-> dur, type |-> ResamplerType(from, to),
   ratio |-> LibraryRatio(ResamplerType(from, to), from, to),
   input |-> [c \in 1..channels |-> 0], blocks |-> 0, fed |-> 0, out |-> 0,
   ret |-> "None", last |-> 0, pad |-> 0, lost |-> 0, flushed |-> FALSE]

\* self.input[0].len(): the frames queued, read off the first channel.
QueueLen(r) == r.input[1]

\* Frames the library has produced once it has consumed `blocks` blocks.
Produced(r, blocks) == (blocks * r.duration * r.ratio[1]) \div r.ratio[2]

\* resample_inner: one block of `duration` frames of every channel goes
\* through the library, is drained from the front of every input queue and
\* comes back interleaved: Some(slice of channels x output frames samples).
resample_inner(r) ==
  [r EXCEPT !.blocks = @ + 1,
            !.input = [c \in DOMAIN @ |-> @[c] - r.duration],
            !.out = Produced(r, r.blocks + 1),
            !.ret = "Some",
            !.last = r.channels * (Produced(r, r.blocks + 1) - r.out)]

\* A conversion that fills the first channel only.
ConvertFirstOnly(q, n) == [c \in DOMAIN q |-> IF c = 1 THEN q[c] + n ELSE q[c]]

\* convert_samples: n frames are appended to the queue of every channel.
convert_samples(q, n) == [c \in DOMAIN q |-> q[c] + n]

\* A test that also waits when exactly one block is queued.
NeedMoreThanBlock(len, dur) == len <= dur

\* "Check if more samples are required."
NeedMore(len, dur) == len < dur

\* A flush that pads nothing.
Unpadded(len, dur) == len

\* The queue length flush pads to: the next multiple of the block length.
PaddedLen(len, dur) ==
  IF len % dur # 0 THEN len + (dur - (len % dur)) ELSE len

\* Resampler::resample(input) for a decoded buffer of n frames
resample ==
  /\ rs.some
  /\ ~rs.flushed
  /\ \E n \in 0..rs.duration :
       /\ rs.fed + n <= MaxFed
       /\ LET r == [rs EXCEPT !.input = convert_samples(@, n), !.fed = @ + n,
                              !.ret = "None", !.last = 0]
          IN rs' = IF NeedMore(QueueLen(r), r.duration) THEN r
                   ELSE resample_inner(r)
  /\ UNCHANGED <<now, last_buffer_warning, olog, engineVars, chan, nSent, is_processing_ui_change, cbScale,
                 playerVars, toggle, ring, w, buffer_full, cbOut>>

\* Resampler::flush: nothing with an empty queue; otherwise every channel is
\* padded with silence to the next block boundary and one pass is run.  The
\* sink is flushed (more than once by the Stopped step) right before it is
\* discarded: no buffer is resampled after a flush.
resampler_flush ==
  /\ rs.some
  /\ LET len == QueueLen(rs)
         padded == PaddedLen(len, rs.duration)
     IN rs' = IF len = 0
              THEN [rs EXCEPT !.ret = "None", !.last = 0, !.flushed = TRUE]
              ELSE [resample_inner(
                      [rs EXCEPT !.input = [c \in DOMAIN @ |-> padded]])
                    EXCEPT !.pad = padded - len,
                           !.lost = Max(len - rs.duration, 0),
                           !.flushed = TRUE]
  /\ UNCHANGED <<now, last_buffer_warning, olog, engineVars, chan, nSent, is_processing_ui_change, cbScale,
                 playerVars, toggle, ring, w, buffer_full, cbOut>>

\* A resampler on its own: built for some pair of different rates and fed
\* decoded buffers of at most `duration` frames (the decoder's capacity).
ResamplerInit ==
  /\ InitEngine
  /\ rs \in {NewResampler(from, c, to, d) :
               from \in Rates, c \in ChannelCounts,
               to \in Rates, d \in 1..MaxBlock}
  /\ rs.from # rs.to

ResamplerNext ==
  \/ resample
  \/ resampler_flush

ResamplerSpec == ResamplerInit /\ [][ResamplerNext]_vars

\* ----------------------------------------------------------- Playlist spec
PlaylistStep(op, idx, p) ==
  /\ playlist' = p
  /\ plOp' = [op |-> op, idx |-> idx, before |-> playlist]
  /\ UNCHANGED <<engineVars, chan, nSent, is_processing_ui_change, cbScale,
                 track_state, selected_track, player_volume, loadSent,
                 modeVars, toggle, sinkVars>>

\* Playlist::add(track)
add ==
  \E t \in TrackKeys :
    /\ Len(playlist.tracks) < MaxTracks
    /\ PlaylistStep("add", t, [playlist EXCEPT !.tracks = VecPush(@, t)])

\* Playlist::remove(idx) with a valid index
remove ==
  \E idx \in 0..(Len(playlist.tracks) - 1) :
    PlaylistStep("remove", idx, PlaylistRemove(playlist, idx))

\* Playlist::toggle_selection(idx) on a row of the playlist
toggle_selection ==
  \E idx \in 0..(Len(playlist.tracks) - 1) :
    PlaylistStep("toggle_selection", idx,
                 [playlist EXCEPT !.selected_indices =
                    IF idx \in @ THEN @ \ {idx} ELSE @ \cup {idx}])

\* Playlist::reorder(current_pos, destination_pos) with valid positions
reorder ==
  \E current_pos \in 0..(Len(playlist.tracks) - 1),
     destination_pos \in 0..(Len(playlist.tracks) - 1) :
    PlaylistStep("reorder", <<current_pos, destination_pos>>,
                 PlaylistReorder(playlist, current_pos, destination_pos))

\* Playlist::set_name(name)
set_name ==
  \E n \in Names :
    PlaylistStep("set_name", n, [playlist EXCEPT !.name = n])

\* Playlist::clear_selection
clear_selection ==
  PlaylistStep("clear_selection", 0, [playlist EXCEPT !.selected_indices = {}])

\* A range that runs one past the last track.
UpToLen(n) == 0..n

\* for i in 0..self.tracks.len()
AllIndices(n) == 0..(n - 1)

\* Playlist::select_all
select_all ==
  PlaylistStep("select_all", 0,
               [playlist EXCEPT !.selected_indices =
                  AllIndices(Len(playlist.tracks))])

PlaylistNext ==
  \/ add
  \/ remove
  \/ reorder
  \/ set_name
  \/ toggle_selection
  \/ select_all
  \/ clear_selection

PlaylistSpec == Init /\ [][PlaylistNext]_vars

\* ------------------------------------------------- the Player and a playlist
\* One Player method that makes several sends, in order.
PlayerSendAll(cs) ==
  /\ alive
  /\ nSent + Len(cs) <= MaxCalls
  /\ chan' = chan \o [i \in 1..Len(cs) |-> [cs[i] EXCEPT !.id = nSent + i]]
  /\ nSent' = nSent + Len(cs)
  /\ toggle' = Abandon
  /\ loadSent' = (loadSent \/ \E i \in 1..Len(cs) : cs[i].c = "LoadFile")
  /\ UNCHANGED <<engineVars, cbScale, sinkVars, player_volume,
                 is_processing_ui_change, playlistVars>>

\* Playlist::get_pos: the first row that holds an equal track, -1 for None.
get_pos(p, track) ==
  IF \E i \in 1..Len(p.tracks) : p.tracks[i] = track
  THEN (CHOOSE i \in 1..Len(p.tracks) :
          /\ p.tracks[i] = track
          /\ \A j \in 1..(i - 1) : p.tracks[j] # track) - 1
  ELSE -1

\* select_track(Some(playlist.tracks[idx])) followed by play()
LoadAndPlay(idx) ==
  /\ selected_track' = playlist.tracks[idx + 1]
  /\ track_state' = "Playing"
  /\ playing_idx' = idx
  /\ PlayerSendAll(<<Cmd("LoadFile", playlist.tracks[idx + 1], 0),
                     Cmd("Play", NoPath, 0)>>)

\* Nothing is sent and nothing changes.
NothingSent == UNCHANGED vars

\* (current_track_position + 1) % playlist.tracks.len()
WrapNext(pos, len) == (pos + 1) % len

\* Player::next with the playlist that is shown
next ==
  LET pos == get_pos(playlist, selected_track)
      len == Len(playlist.tracks)
  IN  /\ alive
      /\ IF selected_track = NoPath \/ pos = -1 THEN NothingSent
         ELSE CASE playback_mode = "Normal" ->
                     IF pos < len - 1
                     THEN LoadAndPlay(pos + 1) /\ UNCHANGED playback_mode
                     ELSE NothingSent
                [] playback_mode = "Repeat" ->
                     LoadAndPlay(WrapNext(pos, len)) /\ UNCHANGED playback_mode
                [] playback_mode = "RepeatOne" ->
                     /\ track_state' = "Playing"
                     /\ PlayerSendAll(<<Cmd("Seek", NoPath, 0),
                                        Cmd("Play", NoPath, 0)>>)
                     /\ UNCHANGED <<selected_track, modeVars>>
                [] playback_mode = "Shuffle" ->
                     IF len > 1
                     THEN \E i \in 0..(len - 1) :
                            /\ i # pos
                            /\ LoadAndPlay(i)
                            /\ UNCHANGED playback_mode
                     ELSE NothingSent

\* The AudioFinished arm of the controller: the engine reported the end of
\* the track and the Player picks what comes next.
on_finished == next

\* Player::previous
previous ==
  LET pos == get_pos(playlist, selected_track)
  IN  /\ alive
      /\ IF selected_track # NoPath /\ pos > 0
         THEN LoadAndPlay(pos - 1) /\ UNCHANGED playback_mode
         ELSE NothingSent

\* A double click on row idx of the playlist table.
row_play ==
  \E idx \in 0..(Len(playlist.tracks) - 1) :
    /\ LoadAndPlay(idx)
    /\ UNCHANGED playback_mode

NextMode(m) ==
  CASE m = "Normal" -> "Repeat"
    [] m = "Repeat" -> "RepeatOne"
    [] m = "RepeatOne" -> "Shuffle"
    [] m = "Shuffle" -> "Normal"

\* Player::toggle_playback_mode
toggle_playback_mode ==
  /\ alive
  /\ playback_mode' = NextMode(playback_mode)
  /\ UNCHANGED <<engineVars, chan, nSent, cbScale, sinkVars, toggle,
                 track_state, selected_track, player_volume, loadSent,
                 playing_idx, is_processing_ui_change, playlistVars>>

FacadeNext ==
  \/ add
  \/ row_play
  \/ select_none
  \/ play
  \/ pause
  \/ stop
  \/ on_finished
  \/ previous
  \/ toggle_playback_mode

FacadeSpec == Init /\ [][FacadeNext]_vars

\* ================================================================== claims
Stable == {"Unstarted", "Stopped", "Playing", "Paused"}
IterationDone == pc = "recv"
JustApplied == pc = "match" /\ alive
Has(tr, k, e) == \E i \in DOMAIN tr : tr[i].k = k /\ tr[i].e = e
NoEmits(tr) == \A i \in DOMAIN tr : tr[i].k # "emit"

\* C1: a playthrough that reaches end of input emits Finished exactly once:
\* no second Finished before the session is reloaded by Stop, Seek or LoadFile,
\* whatever command is pending when end of input is detected.
C1_FinishedOnce == finished <= 1

\* C2: a LoadFile whose input is unreadable, fails probing or has no supported
\* track leaves the engine idle and running: at the end of that step the thread
\* is alive and the state is not Playing.
C2_FailedLoadStaysIdle ==
  (cmd.c = "LoadFile" /\ (IterationDone \/ ~alive)
     /\ loadResult.result \in {"open_failed", "probe_failed", "no_track"})
  => (alive /\ state.t # "Playing")

\* C3: Stop processed while Unstarted and before any track was loaded is a
\* no-op: the iteration ends in Unstarted, emits no status event and sleeps.
C3_StopUnstartedNoop ==
  (IterationDone /\ cmd.c = "Stop" /\ prev = "Unstarted"
     /\ current_track_path = NoPath)
  => (state.t = "Unstarted" /\ NoEmits(trace) /\ Has(trace, "op", "sleep"))

\* C5 (as stated): every packet written to the sink after Seek(T) has
\* timestamp >= T, the only exception being the reset-required fallback.
C5_RenderedAtOrAfterSeek ==
  \A i \in DOMAIN trace :
    (trace[i].k = "op" /\ trace[i].e = "write")
    => trace[i].n >= (IF loadResult.seek = "reset" THEN 0 ELSE seekFloor)

\* C5 (amended): every packet written to the sink after Seek(T) has timestamp
\* >= T unless the demuxer's seek failed (reset required or any other seek
\* error), in which case the trim threshold is 0.
C5_RenderedAtOrAfterAchievedSeek ==
  \A i \in DOMAIN trace :
    (trace[i].k = "op" /\ trace[i].e = "write")
    => trace[i].n >= (IF loadResult.seek \in {"reset", "err"} THEN 0
                      ELSE seekFloor)

C5_Witness ==
  /\ seekFloor > 0
  /\ loadResult.seek = "ok"
  /\ \E i \in DOMAIN trace :
       trace[i].k = "op" /\ trace[i].e = "write" /\ trace[i].n >= seekFloor

\* C6: at most one sink is opened per session: it is opened at the first
\* decoded buffer with that buffer's format, never again while the session
\* plays, and every session replacement leaves the engine without a sink.
C6_OneSinkPerSession ==
  /\ opens <= 1
  /\ audio_output.some <=> (opens = 1)
  /\ audio_output.some =>
       (decoded >= 1 /\ decoder.some
          /\ audio_output.spec = Format(decoder.path))
  /\ (alive /\ decoded >= 1) => audio_output.some
  /\ Has(trace, "op", "drop_output") =>
       (~audio_output.some /\ opens = 0 /\ decoded = 0)

C6_Witness ==
  audio_output.some /\ opens = 1 /\ decoded = 2 /\ Has(trace, "op", "write")

\* C7: once SetVolume(V) has been processed, every later callback invocation
\* scales its samples by V.
C7_CallbackUsesVolume == cbScale # 0 => cbScale = volume

\* C9: commands are applied in the order sent, at most one per iteration, and
\* only at the start of an iteration (never while a packet is being handled).
InOrder(q, last) == \A i \in DOMAIN q : q[i].id = last + i
C9_InOrderOnePerIteration ==
  [][/\ InOrder(chan', lastApplied')
     /\ lastApplied' \in {lastApplied, lastApplied + 1}
     /\ lastApplied' # lastApplied =>
          (pc = "recv" /\ pc' = "match" /\ cmd'.id = lastApplied'
             /\ state' = ApplyCmd(cmd', state))
     /\ pc = "match" => (lastApplied' = lastApplied /\ cmd' = cmd)]_vars

C9_Witness ==
  JustApplied /\ cmd.id = 2 /\ lastApplied = 2 /\ Len(chan) >= 1

\* C10: at the end of every loop iteration the state is one of Unstarted,
\* Stopped, Playing, Paused: LoadFile and SeekTo have resolved.
C10_TransientStatesResolve == IterationDone => state.t \in Stable

\* C4: from Playing, pause() followed by pause() brings the engine back to
\* Playing, and between the two commands the engine is Paused and neither
\* emits Finished or CurrentPosition nor decodes a packet.
Quiet(tr) ==
  \A i \in DOMAIN tr :
    /\ ~(tr[i].k = "emit" /\ tr[i].e \in {"Finished", "CurrentPosition"})
    /\ ~(tr[i].k = "op" /\ tr[i].e \in {"decode", "decode_error", "skip"})
First(tr, k, e) ==
  IF Has(tr, k, e) THEN CHOOSE i \in DOMAIN tr :
         /\ tr[i].k = k /\ tr[i].e = e
         /\ \A j \in 1..(i - 1) : ~(tr[j].k = k /\ tr[j].e = e)
  ELSE 0
StopOfLoadedTrack ==
  /\ cmd.c = "Stop" /\ prev \in {"Playing", "Paused"}
  /\ current_track_path \in GoodPaths
  /\ (IterationDone \/ ~alive)
C11_StopReloadsFromStart ==
  StopOfLoadedTrack =>
    /\ alive /\ state.t = "Unstarted"
    /\ Has(trace, "op", "flush") =>
         First(trace, "op", "flush") < First(trace, "op", "finalize")
    /\ 0 < First(trace, "op", "finalize")
    /\ First(trace, "op", "finalize") < First(trace, "op", "drop_output")
    /\ First(trace, "op", "drop_output") < First(trace, "op", "load_file")
    /\ First(trace, "op", "load_file") < First(trace, "emit", "CurrentPosition")
    /\ \E i \in DOMAIN trace : trace[i] = Op("load_file", 0)
    /\ trace[Len(trace)] = Emit("CurrentPosition", 0)
    /\ ~audio_output.some
    /\ reader = NewReader(current_track_path, 0)
    /\ track_info.some /\ track_info.seek_ts = 0
    /\ decoder = [some |-> TRUE, path |-> current_track_path,
                  finalized |-> FALSE]

C11_Witness ==
  /\ StopOfLoadedTrack /\ alive /\ prev = "Playing"
  /\ Has(trace, "op", "flush")
  /\ state.t = "Unstarted" /\ reader.pos = 0

\* C12: when opening the output device fails at the first decoded buffer the
\* engine stays alive and idle: nothing is rendered in that iteration, the
\* state is no longer Playing and the loop goes on to receive commands.
C12_OpenFailureStaysAlive ==
  Has(trace, "op", "open_failed") =>
    /\ alive
    /\ ~Has(trace, "op", "write")
    /\ IterationDone => state.t # "Playing"

\* C13: a failure to decode one packet, other than end of stream, never stops
\* playback: the iteration ends with the thread alive, the state Playing, the
\* session and the sink kept and no Finished event emitted.
DecodeFailed(tr) ==
  Has(tr, "op", "decode_error") \/ Has(tr, "op", "decode_failed")
C13_DecodeFailureContinues ==
  DecodeFailed(trace) =>
    /\ alive /\ IterationDone
    /\ state.t = "Playing"
    /\ HasSession /\ decoder.some
    /\ ~Has(trace, "emit", "Finished")

\* C14: of any two consecutive CurrentPosition events (the CurrentPosition(0)
\* of the Stopped step included) the later one is more than the threshold
\* ahead of the earlier one, or strictly smaller.
C14_PositionEventsFarApart ==
  [][\A i \in DOMAIN trace' :
       (trace = <<>> /\ lastPos # -1
          /\ trace'[i].k = "emit" /\ trace'[i].e = "CurrentPosition")
       => (trace'[i].n > lastPos + PosThreshold \/ trace'[i].n < lastPos)]_vars

\* C15: the TotalDuration event emitted after LoadFile carries the duration
\* of the newly loaded track when the container exposes its frame count, and
\* 0 when it does not or when the load failed.
ExpectedDuration ==
  IF loadResult.result = "ok" /\ HasFrames(current_track_path)
  THEN TrackDuration(current_track_path) ELSE 0
C15_TotalDurationOfNewTrack ==
  \A i \in DOMAIN trace :
    (trace[i].k = "emit" /\ trace[i].e = "TotalDuration")
    => trace[i].n = ExpectedDuration

\* C16: feeding N frames at rate R1 to a resampler targeting R2 yields
\* floor(N*R2/R1) output frames give or take one block's worth, whichever
\* algorithm is selected, and flush loses no more than one block of input.
BlockWorth(r) == (r.duration * r.to + r.from - 1) \div r.from
C16_ThroughputLaw ==
  rs.some =>
    /\ Abs(rs.out - ((rs.fed * rs.to) \div rs.from)) <= BlockWorth(rs)
    /\ rs.lost <= rs.duration

\* C17: apart from the two channels, the ring buffer, the volume scalar and
\* the fullness flag, no variable is touched by two threads: a step of the
\* controller leaves everything of the engine and the sink alone, and a step
\* of the engine thread leaves everything the controller reads or writes
\* alone.
ControllerOwned == <<playerVars, is_processing_ui_change>>
C17_OnlyThreeShared ==
  [][/\ PlayerCall => UNCHANGED <<engineVars, sinkVars>>
     /\ EngineStep => UNCHANGED ControllerOwned]_vars

\* C18: no two overflow log entries are less than 500 ms apart, and a write
\* that drops samples is logged whenever no entry was logged in the 500 ms
\* before it, the first drop after the sink is opened included.
Drops == w.pc = "loop" /\ w'.pc = "returned" /\ w'.dropped > 0
Logged == olog'.flip # olog.flip
C18_OneOverflowEntryPerWindow ==
  [][Drops =>
       /\ (Logged /\ olog.at # -1) => now - olog.at >= WarnWindow
       /\ (olog.at = -1 \/ now - olog.at > WarnWindow) => Logged]_vars

\* C19: a LoadFile that follows a processed Select(i) establishes the
\* session on the track at index i when the file has one; without a Select,
\* or with an index out of range, on the first track with a non-null codec.
WantedTrack(path) ==
  IF selectIndex \in DOMAIN Tracks(path) THEN Tracks(path)[selectIndex]
  ELSE first_supported_track(path)
C19_SelectedTrackIsUsed ==
  (IterationDone /\ cmd.c = "LoadFile" /\ loadResult.result = "ok"
     /\ loadResult.seek # "reset")
  => track_info.track_id = WantedTrack(current_track_path)

\* C20: remove(idx) for a valid idx removes exactly the track at idx, keeps
\* the other tracks in their order (one track fewer), leaves a selected index
\* below idx alone, decrements a selected index above idx and deselects idx.
C20_RemoveKeepsOrderAndSelection ==
  plOp.op = "remove" =>
    LET old == plOp.before
        idx == plOp.idx
    IN /\ Len(playlist.tracks) = Len(old.tracks) - 1
       /\ \A j \in 0..(Len(old.tracks) - 1) :
            /\ j < idx => playlist.tracks[j + 1] = old.tracks[j + 1]
            /\ j > idx => playlist.tracks[j] = old.tracks[j + 1]
       /\ \A i \in 0..(Len(old.tracks) - 1) :
            i \in playlist.selected_indices <=>
              \/ (i < idx /\ i \in old.selected_indices)
              \/ (i >= idx /\ (i + 1) \in old.selected_indices)
       /\ playlist.selected_indices \subseteq 0..(Len(old.tracks) - 1)

C20_Witness ==
  /\ plOp.op = "remove" /\ plOp.idx = 1
  /\ Len(plOp.before.tracks) = 3
  /\ plOp.before.selected_indices = {0, 1, 2}
  /\ playlist.selected_indices = {0, 1}

\* C21: reorder(current_pos, destination_pos) for valid positions puts the
\* moved track at destination_pos, keeps the length and the relative order of
\* the other tracks, and remaps selected_indices so that the same tracks are
\* selected as before: as many indices, each following its track.
MovedTo(i, c, d) ==
  IF i = c THEN d
  ELSE LET afterRemove == IF i > c THEN i - 1 ELSE i
       IN IF afterRemove >= d THEN afterRemove + 1 ELSE afterRemove
C21_ReorderMovesTrackAndSelection ==
  plOp.op = "reorder" =>
    LET old == plOp.before
        c == plOp.idx[1]
        d == plOp.idx[2]
    IN /\ Len(playlist.tracks) = Len(old.tracks)
       /\ playlist.tracks[d + 1] = old.tracks[c + 1]
       /\ VecRemove(playlist.tracks, d) = VecRemove(old.tracks, c)
       /\ Cardinality(playlist.selected_indices)
            = Cardinality(old.selected_indices)
       /\ playlist.selected_indices
            = {MovedTo(i, c, d) : i \in old.selected_indices}
       /\ \A i \in old.selected_indices :
            playlist.tracks[MovedTo(i, c, d) + 1] = old.tracks[i + 1]

C21_Witness ==
  /\ plOp.op = "reorder" /\ plOp.idx = <<2, 0>>
  /\ plOp.before.tracks = <<"song1", "song2", "song3">>
  /\ plOp.before.selected_indices = {0, 2}
  /\ playlist.tracks = <<"song3", "song1", "song2">>
  /\ playlist.selected_indices = {0, 1}

\* C22: a new playlist has no name, no tracks and no selected track; after
\* set_name, get_name returns the name set and tracks and selection are as
\* before; add appends the track at the end: one track more, the existing
\* tracks and their order unchanged.
C22_NewSetNameAdd ==
  /\ plOp = NoOp =>
       /\ get_name(playlist) = NoName
       /\ Len(playlist.tracks) = 0
       /\ playlist.selected = NoTrack
  /\ plOp.op = "set_name" =>
       /\ get_name(playlist) = plOp.idx
       /\ playlist.tracks = plOp.before.tracks
       /\ playlist.selected = plOp.before.selected
       /\ playlist.selected_indices = plOp.before.selected_indices
  /\ plOp.op = "add" =>
       /\ Len(playlist.tracks) = Len(plOp.before.tracks) + 1
       /\ playlist.tracks[Len(playlist.tracks)] = plOp.idx
       /\ SubSeq(playlist.tracks, 1, Len(plOp.before.tracks))
            = plOp.before.tracks

C22_Witness ==
  /\ plOp.op = "add" /\ plOp.idx = "song2"
  /\ plOp.before.tracks = <<"song1", "song3">>
  /\ get_name(playlist) = "Test"
  /\ playlist.selected_indices = {1}

\* C23: every processed Seek and every processed LoadFile is followed, in the
\* same iteration, by exactly one PlaybackStateChanged(true), whatever the
\* state the command arrived in.
Count(tr, k, e, n) ==
  Cardinality({i \in DOMAIN tr : tr[i] = [k |-> k, e |-> e, n |-> n]})
C23_SeekAndLoadAnnouncePlaying ==
  (IterationDone /\ cmd.c \in {"Seek", "LoadFile"})
  => Count(trace, "emit", "PlaybackStateChanged", 1) = 1

\* C24: a LoadFile or Seek step that starts a new session retires the
\* previous one first: the decoder there was is finalized, and the sink there
\* was is flushed and then discarded, before the new file is opened.
Before(tr, e1, e2) ==
  0 < First(tr, "op", e1) /\ First(tr, "op", e1) < First(tr, "op", e2)
C24_PreviousSessionRetiredFirst ==
  [][(pc = "match" /\ state.t \in {"SeekTo", "LoadFile"}
        /\ Has(trace', "op", "load_file"))
     => /\ decoder.some => Before(trace', "finalize", "load_file")
        /\ audio_output.some => Before(trace', "flush", "drop_output")
        /\ Before(trace', "drop_output", "load_file")]_vars

\* C25: one callback invocation asking for n samples while the ring buffer
\* holds k hands the device the oldest min(n, k) samples in FIFO order, each
\* scaled by the volume stored when the invocation began, then n - min(n, k)
\* samples of silence; it takes exactly those min(n, k) samples out of the
\* ring buffer and, the fullness flag apart, leaves the engine alone.
C25_CallbackFifoScaledPadded ==
  [][Callback =>
       LET n == Len(cbOut')
           k == Len(ring)
           m == IF n < k THEN n ELSE k
       IN /\ n \in 1..MaxRequest
          /\ \A i \in 1..m :
               cbOut'[i] = (ring[i] * audio_output.volume) \div UnityVolume
          /\ \A i \in (m + 1)..n : cbOut'[i] = 0
          /\ Len(ring') = k - m
          /\ \A i \in 1..(k - m) : ring'[i] = ring[m + i]
          /\ UNCHANGED <<engineVars, w, rs, chan, playerVars>>]_vars

C25_Witness ==
  /\ cbOut = <<1, 0>> /\ cbScale = 50
  /\ ring = <<>> /\ ~buffer_full

\* C26: a packet that does not belong to the selected track is skipped: it is
\* not decoded, not rendered and produces no status event, and the step leaves
\* the engine state, the session (the reader has moved past the packet), the
\* sink and the bookkeeping of the position reports as they were.
C26_ForeignPacketSkipped ==
  [][(pc = "match" /\ Has(trace', "op", "skip"))
     => /\ Len(trace') = 1
        /\ alive' /\ pc' = "recv"
        /\ reader' = [reader EXCEPT !.pos = reader.pos + 1]
        /\ UNCHANGED <<state, track_info, decoder, audio_output,
                       current_track_path, duration, last_ts, lastPos,
                       volume, decoded, opens, finished, sinkVars>>]_vars

C26_Witness ==
  /\ trace = <<Op("skip", PacketDur)>>
  /\ IterationDone /\ state.t = "Playing"
  /\ audio_output.some /\ reader.pos = 2

\* C27: resample appends the buffer's frames to the queue of every channel
\* and returns nothing while less than one block is queued; with a block
\* queued it processes exactly one block, takes exactly that block's frames
\* off every channel queue and returns interleaved output of (channel count)
\* x (output frames) samples.
C27_ResampleBlockAccounting ==
  [][~rs'.flushed =>
       LET n == rs'.fed - rs.fed
           queued == [c \in 1..rs.channels |-> rs.input[c] + n]
       IN /\ DOMAIN rs'.input = 1..rs.channels
          /\ IF \E c \in 1..rs.channels : queued[c] < rs.duration
             THEN /\ rs'.ret = "None" /\ rs'.last = 0
                  /\ rs'.input = queued
                  /\ rs'.blocks = rs.blocks /\ rs'.out = rs.out
             ELSE /\ rs'.ret = "Some"
                  /\ rs'.blocks = rs.blocks + 1
                  /\ \A c \in 1..rs.channels :
                       rs'.input[c] = queued[c] - rs.duration
                  /\ rs'.last = rs.channels * (rs'.out - rs.out)]_vars

C27_Witness ==
  /\ rs.some /\ ~rs.flushed /\ rs.ret = "Some"
  /\ rs.channels = 2 /\ rs.duration = 2 /\ rs.input = <<1, 1>>
  /\ rs.blocks = 2 /\ rs.last = 4

\* C28: flush with an empty queue returns nothing and changes nothing; with
\* L frames queued it pads every channel with silence to the next block
\* boundary, runs one pass and leaves every channel queue empty, so that a
\* flush right after it returns nothing.
C28_FlushPadsOnceThenNothing ==
  [][rs'.flushed =>
       LET L == rs.input[1] IN
       IF L = 0
       THEN /\ rs'.ret = "None" /\ rs'.last = 0
            /\ rs'.input = rs.input
            /\ rs'.blocks = rs.blocks /\ rs'.out = rs.out
       ELSE /\ rs'.ret = "Some"
            /\ (L + rs'.pad) % rs.duration = 0
            /\ rs'.pad < rs.duration
            /\ rs'.blocks = rs.blocks + 1
            /\ \A c \in 1..rs.channels : rs'.input[c] = 0]_vars

C28_Witness ==
  /\ rs.some /\ rs.flushed /\ rs.ret = "None"
  /\ rs.pad = 1 /\ rs.blocks = 2 /\ rs.input = <<0, 0>>

\* C29: whenever the engine is about to execute the Playing step a live
\* session exists: demuxer, selected-track info and decoder are all present.
C29_PlayingHasSession ==
  (pc = "match" /\ alive /\ state.t = "Playing")
  => (reader.some /\ track_info.some /\ decoder.some)

\* C30: Finished is emitted only when the demuxer reports end of input: an
\* iteration that emits it has found the reader at the end of the file.
C30_FinishedOnlyAtEndOfInput ==
  Has(trace, "emit", "Finished") => (reader.some /\ reader.pos = TrackLen)

\* C39: after any sequence of add, remove, reorder, select_all,
\* clear_selection and toggle_selection with in-range indices, every member
\* of selected_indices is a valid index into tracks.
C39_SelectedIndicesInRange ==
  \A i \in playlist.selected_indices : 0 <= i /\ i < Len(playlist.tracks)

C39_Witness ==
  /\ plOp.op = "remove" /\ plOp.idx = 0
  /\ plOp.before.selected_indices = {0, 2}
  /\ playlist.selected_indices = {1} /\ Len(playlist.tracks) = 2

\* C36: with buffers of at most one block of frames, after every resample and
\* flush call all per-channel input queues have the same length, and that
\* length is less than one processing block.
C36_QueuesEqualAndBelowBlock ==
  rs.some =>
    /\ \A c \in DOMAIN rs.input : rs.input[c] = rs.input[1]
    /\ DOMAIN rs.input = 1..rs.channels
    /\ 0 <= rs.input[1] /\ rs.input[1] < rs.duration

C36_Witness ==
  /\ rs.some /\ rs.channels = 2 /\ rs.duration = MaxBlock
  /\ rs.input = <<MaxBlock - 1, MaxBlock - 1>>
  /\ rs.blocks = 1 /\ rs.fed = 2 * MaxBlock - 1 /\ ~rs.flushed

\* C34: what one write puts into the ring buffer is a prefix of the buffer's
\* interleaved samples, in order and without duplication, whatever the
\* callback does in between: the count written never exceeds the number of
\* samples, each retry resumes at the first unwritten sample, and what is
\* dropped is the rest.
C34_WritePutsPrefix ==
  [][(w.pc \in {"loop", "parked"} /\ w' # w)
     => /\ w'.samples = w.samples
        /\ w.written <= w'.written /\ w'.written <= Len(w.samples)
        /\ ring' = ring \o [i \in 1..(w'.written - w.written) |->
                               w.samples[w.written + i]]
        /\ w'.pc = "returned"
             => w'.dropped = Len(w.samples) - w'.written]_vars

C34_Witness ==
  /\ w.pc = "returned" /\ Len(w.samples) = 3
  /\ w.written = 2 /\ w.dropped = 1 /\ w.retry = MaxRetries
  /\ ring = <<4>>

\* C35: a sink is never discarded while samples written into its ring buffer
\* are still waiting for the callback.
C35_NothingQueuedAtDiscard ==
  [][(audio_output.some /\ ~audio_output'.some) => ring = <<>>]_vars

\* C37: the fullness flag is written by the callback only, and it is never
\* true right after a callback invocation that left the ring buffer empty.
C37_FullFlagMeansNearlyFull ==
  [][/\ buffer_full' # buffer_full => Callback
     /\ Callback => ~(buffer_full' /\ ring' = <<>>)]_vars

\* C33: at most one SetVolume command is in flight; the processing flag is set
\* exactly while one is; while it is set no step changes Player.volume or
\* sends another SetVolume; and with none in flight the engine's volume is
\* Player.volume.
VolumesInFlight == {i \in DOMAIN chan : chan[i].c = "SetVolume"}
C33_VolumeHandshake ==
  /\ [](/\ Cardinality(VolumesInFlight) <= 1
        /\ is_processing_ui_change <=> VolumesInFlight # {}
        /\ VolumesInFlight = {} => volume = player_volume)
  /\ [][is_processing_ui_change =>
          /\ player_volume' = player_volume
          /\ \A i \in DOMAIN chan' :
               chan'[i].c = "SetVolume" =>
                 \E j \in DOMAIN chan : chan[j] = chan'[i]]_vars
C33_Witness ==
  /\ volume = 25
  /\ player_volume = 25
  /\ ~is_processing_ui_change
  /\ lastApplied >= 2
  /\ chan # <<>>

\* C32: every Play, Pause or Stop the Player sends has a LoadFile before it on
\* the channel; a Play is sent only with a track selected or as the second
\* half of the pause toggle; a Pause or a Stop only from Playing or Paused;
\* and track_state changes only in a call that sends something.
NewCmds == {i \in DOMAIN chan' : chan'[i].id > nSent}
C32_LoadFileComesFirst ==
  [][/\ \A i \in NewCmds :
          /\ chan'[i].c \in {"Play", "Pause", "Stop"} =>
               \/ loadSent
               \/ \E j \in NewCmds : j < i /\ chan'[j].c = "LoadFile"
          /\ chan'[i].c = "Play" =>
               selected_track' # NoPath \/ track_state = "Paused"
          /\ chan'[i].c \in {"Pause", "Stop"} =>
               track_state \in {"Playing", "Paused"}
     /\ track_state' # track_state => NewCmds # {}]_vars
C32_Witness ==
  /\ selected_track = NoPath
  /\ track_state = "Playing"
  /\ Len(chan) = 4
  /\ chan[1].c = "LoadFile"
  /\ chan[3].c = "Pause"
  /\ chan[4].c = "Play"

\* C38: a call of Player::next on Finished that sends anything sends, in
\* Normal mode, LoadFile of the row after the playing row and Play, and only
\* when the playing row is not the last; in Repeat mode LoadFile of the row
\* after it, wrapping to the first, and Play; in RepeatOne Seek(0) and Play
\* with the selection unchanged; in Shuffle LoadFile of another row and Play,
\* and only with more than one track. The row loaded is inside the playlist.
SentNow == SubSeq(chan', Len(chan) + 1, Len(chan'))
Loads(idx) ==
  /\ 0 <= idx /\ idx < Len(playlist.tracks)
  /\ Len(SentNow) = 2
  /\ SentNow[1].c = "LoadFile"
  /\ SentNow[1].path = playlist.tracks[idx + 1]
  /\ SentNow[2].c = "Play"
  /\ selected_track' = playlist.tracks[idx + 1]
  /\ playing_idx' = idx
C31_EngineAgreesWithPlayer ==
  (alive /\ IterationDone /\ chan = <<>> /\ lastApplied = nSent)
  => /\ state.t = "Playing" <=> track_state = "Playing"
     /\ state.t = "Paused" <=> track_state = "Paused"

\* C8: a write never waits on the consumer: with the ring buffer full it makes
\* at most five attempts, drops the rest and returns.
C8_WriteNeverWaits == w.pc # "parked" /\ w.retry <= MaxRetries

====
